---- MODULE Spec2Model ----
(***************************************************************************)
(* Model of go-hemera (src/hemera.go): the Add/Act request-reply layer on  *)
(* top of a NATS connection.  Processes host Hemera instances; a process   *)
(* that reaches log.Fatal exits (os.Exit(1)) and takes every call and      *)
(* subscription it hosts with it.                                          *)
(***************************************************************************)
EXTENDS Integers, Sequences, FiniteSets, TLC

\* ------------------------------------------------------------------ bounds
MaxCalls == 2
MaxAdds == 2
MaxReplies == 2

Procs == {"p1", "p2"}
\* The processes that issue Act calls (every process may host Responders).
Clients == {"p1"}
CallIds == 1..MaxCalls

\* ------------------------------------------------------------- constants
RequestType == "request"
RequestTimeout == 2000
ErrAddTopicRequired == "Topic is required"
ErrActTopicRequired == "Topic is required"
ErrTimeout == "nats: timeout"
ErrConnectionClosed == "nats: connection closed"
ErrUnmarshal == "unexpected end of JSON input"
NoError == "nil"
\* time.Millisecond, in nanoseconds (the unit of time.Duration).
Millisecond == 1000000

\* ---------------------------------------------------------------- options
Options(timeout) == [Timeout |-> timeout]
GetDefaultOptions == Options(RequestTimeout)

\* The Option made by Timeout(t), applied to the options o.
Timeout(t, o) == [o EXCEPT !.Timeout = t]

\* NewHemera(conn, options...): options is the list of the t given as
\* Timeout(t); each is applied in turn to the default options.
RECURSIVE ApplyOptions(_, _)
ApplyOptions(o, options) ==
    IF options = <<>> THEN o
    ELSE ApplyOptions(Timeout(Head(options), o), Tail(options))
NewHemera(options) == [Opts |-> ApplyOptions(GetDefaultOptions, options)]

\* h.Opts.Timeout*time.Millisecond, the wait handed to Conn.Request, written
\* in milliseconds: Opts.Timeout times 10^6 ns is Opts.Timeout ms.
RequestWait(h) == h.Opts.Timeout

\* The time.Duration values given to Timeout, in nanoseconds.
Durations == {200, 2000, 200 * Millisecond, 2000 * Millisecond}
OptionLists == {<<>>} \cup {<<d>> : d \in Durations}
                    \cup {<<d, e>> : d \in {200}, e \in Durations}

\* -------------------------------------------------------------- Go values
\* A Go interface{} value: its dynamic type t and its contents.
GoValue(t, num, str, name, message, code) ==
    [t |-> t, num |-> num, str |-> str, name |-> name, message |-> message, code |-> code]

Absent == GoValue("absent", 0, "", "", "", 0)
Nil == GoValue("nil", 0, "", "", "", 0)
GoInt(n) == GoValue("int", n, "", "", "", 0)
GoFloat(n) == GoValue("float64", n, "", "", "", 0)
GoString(s) == GoValue("string", 0, s, "", "", 0)
GoChan == GoValue("chan", 0, "", "", "", 0)
GoMap(name, message, code) == GoValue("map", 0, "", name, message, code)
Error(name, message, code) == GoValue("Error", 0, "", name, message, code)
ErrorPtr(name, message, code) == GoValue("*Error", 0, "", name, message, code)

\* ------------------------------------------------------------ JSON values
JSONValue(j, num, str, name, message, code) ==
    [j |-> j, num |-> num, str |-> str, name |-> name, message |-> message, code |-> code]

JNull == JSONValue("null", 0, "", "", "", 0)
JAbsent == JSONValue("absent", 0, "", "", "", 0)

\* json.Marshal cannot encode a channel value.
Serializable(v) == v.t # "chan"

\* json.Marshal of one value (defined when Serializable(v)).
MarshalValue(v) ==
    CASE v.t = "absent" -> JAbsent
      [] v.t = "nil" -> JNull
      [] v.t \in {"int", "float64"} -> JSONValue("num", v.num, "", "", "", 0)
      [] v.t = "string" -> JSONValue("str", 0, v.str, "", "", 0)
      [] v.t \in {"Error", "*Error", "map"} ->
            JSONValue("obj", 0, "", v.name, v.message, v.code)
      [] OTHER -> JNull

\* json.Unmarshal of one value into an interface{}: numbers become float64,
\* objects become map[string]interface{}.
UnmarshalInterface(j) ==
    CASE j.j = "absent" -> Absent
      [] j.j = "null" -> Nil
      [] j.j = "num" -> GoFloat(j.num)
      [] j.j = "str" -> GoString(j.str)
      [] j.j = "obj" -> GoMap(j.name, j.message, j.code)

\* json.Unmarshal of the "error" field into *Error.
UnmarshalErrorPtr(j) ==
    IF j.j = "obj" THEN ErrorPtr(j.name, j.message, j.code) ELSE Nil

\* --------------------------------------------------------------- patterns
\* Pattern is map[string]interface{}; a key the map lacks holds Absent.
Keys == {"topic", "cmd"}
Pattern(topic, cmd) == [topic |-> topic, cmd |-> cmd]
NilPattern == Pattern(Absent, Absent)

PatMath == Pattern(GoString("math"), GoInt(2))
PatNumTopic == Pattern(GoInt(5), Absent)
PatChan == Pattern(GoString("math"), GoChan)
PatTopic == Pattern(GoString("math"), Absent)

Patterns == {PatMath, PatTopic, NilPattern, PatNumTopic, PatChan}
\* The patterns Responders are added with, and the patterns of Act calls: a
\* Responder is added with the topic alone, a call carries its arguments too.
AddPatterns == Patterns \ {PatMath}
ActPatterns == Patterns \ {PatTopic}

\* topic, ok := p["topic"].(string)
TopicOk(p) == p.topic.t = "string"
Topic(p) == p.topic.str

PatternSerializable(p) == \A k \in Keys : Serializable(p[k])
MarshalPattern(p) == [k \in Keys |-> MarshalValue(p[k])]
UnmarshalPattern(jp) == [k \in Keys |-> UnmarshalInterface(jp[k])]

\* ---------------------------------------------------------------- packets
packet(pattern, result, error, id) ==
    [Pattern |-> pattern, Result |-> result, Error |-> error,
     Request |-> [ID |-> id, RequestType |-> RequestType]]

NoId == <<"", 0>>
ZeroPacket == [Pattern |-> NilPattern, Result |-> Nil, Error |-> Nil,
               Request |-> [ID |-> NoId, RequestType |-> ""]]

\* Bytes on the wire: empty (json.Marshal failed and its nil result was
\* sent) or the JSON object of a packet.
EmptyData == [empty |-> TRUE, pattern |-> MarshalPattern(NilPattern), result |-> JNull,
              error |-> JNull, id |-> NoId, type |-> ""]

\* data, _ := json.Marshal(&pack)
Marshal(pack) ==
    IF PatternSerializable(pack.Pattern) /\ Serializable(pack.Result)
    THEN [empty |-> FALSE, pattern |-> MarshalPattern(pack.Pattern),
          result |-> MarshalValue(pack.Result), error |-> MarshalValue(pack.Error),
          id |-> pack.Request.ID, type |-> pack.Request.RequestType]
    ELSE EmptyData

\* json.Unmarshal(data, &pack) fails on empty input.
UnmarshalFails(data) == data.empty

\* pack := packet{}; json.Unmarshal(data, &pack)
Unmarshal(data) ==
    IF UnmarshalFails(data) THEN ZeroPacket
    ELSE [Pattern |-> UnmarshalPattern(data.pattern),
          Result |-> UnmarshalInterface(data.result),
          Error |-> UnmarshalErrorPtr(data.error),
          Request |-> [ID |-> data.id, RequestType |-> data.type]]

\* ------------------------------------------------------------------ state
VARIABLES
    alive,      \* alive[pr]: process pr has not exited through log.Fatal
    nuid,       \* nuid[pr]: number of ids nuid.Next() has produced in pr
    adds,       \* the Add calls made so far, in order, with their outcome
    calls,      \* calls[c]: the Act call c
    msgs,       \* msgs[c]: the request message of call c at the Responder
    inbox,      \* inbox[c]: replies queued on the reply subject of call c
    envelopes,  \* the correlation id of every packet built so far
    response,   \* the packet the reply callback built last
    late,       \* replies published to a reply subject nobody listens on
    hemera,     \* the Hemera value the Act calls are made on
    options     \* the options NewHemera was given to build hemera

vars == <<alive, nuid, adds, calls, msgs, inbox, envelopes, response, late,
          hemera, options>>

NoRet == [returned |-> FALSE, ok |-> FALSE, err |-> NoError]
Ret(ok, err) == [returned |-> TRUE, ok |-> ok, err |-> err]

IdleCall == [proc |-> "none", pattern |-> NilPattern, status |-> "idle", id |-> NoId,
             wait |-> 0, handled |-> <<>>, consumed |-> <<>>, ret |-> NoRet, cause |-> NoError]
NoMsg == [state |-> "none", sub |-> 0, to |-> {}, data |-> EmptyData, reply |-> 0,
          pattern |-> NilPattern, replies |-> 0]
NoResponse == [call |-> 0, payload |-> Nil, pack |-> ZeroPacket, data |-> EmptyData]

Init ==
    /\ alive = [pr \in Procs |-> TRUE]
    /\ nuid = [pr \in Procs |-> 0]
    /\ adds = <<>>
    /\ calls = [c \in CallIds |-> IdleCall]
    /\ msgs = [c \in CallIds |-> NoMsg]
    /\ inbox = [c \in CallIds |-> <<>>]
    /\ envelopes = {}
    /\ response = NoResponse
    /\ late = {}
    /\ options = <<>>
    /\ hemera = NewHemera(options)

\* nuid.Next(): the next id of process pr, unique to the process and the call.
Next_nuid(pr) == <<pr, nuid[pr] + 1>>

\* log.Fatal: the process exits; every call still waiting in it dies with it.
Killed(cs, pr) ==
    [c \in CallIds |->
        IF cs[c].proc = pr /\ cs[c].status = "waiting"
        THEN [cs[c] EXCEPT !.status = "killed"]
        ELSE cs[c]]

\* h.Conn.QueueSubscribe(topic, topic, cb): the subject and the queue group
\* of the subscription Add makes for pattern p ("" stands for no group).
Subscription_NoGroup(p) == [subject |-> Topic(p), queue |-> ""]
Subscription(p) == [subject |-> Topic(p), queue |-> Topic(p)]
NoSubscription == [subject |-> "", queue |-> ""]

\* A subscription made by adds[i] that the transport still serves.
LiveSub(i) == adds[i].subscribed /\ alive[adds[i].proc]
LiveSubs(topic) ==
    {i \in 1..Len(adds) : LiveSub(i) /\ adds[i].sub.subject = topic}

\* The sets of subscriptions the transport may deliver one message on topic
\* to: every subscription without a queue group, and one member of each
\* queue group.
RecipientSets(topic) ==
    LET live == LiveSubs(topic)
        groups == {adds[i].sub.queue : i \in live} \ {""}
    IN  {R \in SUBSET live :
            /\ \A i \in live : adds[i].sub.queue = "" => i \in R
            /\ \A g \in groups :
                  Cardinality({i \in R : adds[i].sub.queue = g}) = 1}

\* ---------------------------------------------------------------- Add
\* Add(p, handler), run in process pr; subOk: whether QueueSubscribe succeeded
\* (its error is not looked at).
Add(pr, p, subOk) ==
    /\ alive[pr]
    /\ Len(adds) < MaxAdds
    /\ IF ~TopicOk(p)
       THEN /\ alive' = [alive EXCEPT ![pr] = FALSE]
            /\ calls' = Killed(calls, pr)
            /\ adds' = Append(adds, [proc |-> pr, pattern |-> p, subscribed |-> FALSE,
                                     sub |-> NoSubscription,
                                     fatal |-> TRUE, ret |-> NoRet])
       ELSE /\ adds' = Append(adds, [proc |-> pr, pattern |-> p, subscribed |-> subOk,
                                     sub |-> Subscription(p),
                                     fatal |-> FALSE, ret |-> Ret(TRUE, NoError)])
            /\ UNCHANGED <<alive, calls>>
    /\ UNCHANGED <<nuid, msgs, inbox, envelopes, response, late, hemera, options>>

\* The subscription callback of the Responder that call c's request was
\* routed to: decode leniently, invoke the user handler with pack.Pattern.
SubscriptionCallback_AddPattern(c) ==
    /\ msgs[c].state = "inflight"
    /\ LiveSub(msgs[c].sub)
    /\ msgs' = [msgs EXCEPT ![c].state = "handling",
                            ![c].pattern = adds[msgs[c].sub].pattern]
    /\ UNCHANGED <<alive, nuid, adds, calls, inbox, envelopes, response, late, hemera, options>>
SubscriptionCallback(c) ==
    /\ msgs[c].state = "inflight"
    /\ LiveSub(msgs[c].sub)
    /\ msgs' = [msgs EXCEPT ![c].state = "handling",
                            ![c].pattern = Unmarshal(msgs[c].data).Pattern]
    /\ UNCHANGED <<alive, nuid, adds, calls, inbox, envelopes, response, late, hemera, options>>

\* ID: nuid.Next() of the response that answers the request of call c.
ReplyId_Echo(c) == Unmarshal(msgs[c].data).Request.ID
ReplyId(c) == Next_nuid(adds[msgs[c].sub].proc)

\* The number of times reply callbacks have been called so far.
Replies == Cardinality({e \in envelopes : e.kind = "reply"})

\* The response packet the reply callback builds for payload, in the
\* subscription made with pattern p.
Response_AlwaysResult(p, payload, id) == packet(p, payload, Nil, id)
Response_DropsError(p, payload, id) ==
    IF payload.t = "Error" THEN packet(p, Nil, Nil, id) ELSE packet(p, payload, Nil, id)
Response_Both(p, payload, id) ==
    IF payload.t = "Error"
    THEN packet(p, payload, ErrorPtr(payload.name, payload.message, payload.code), id)
    ELSE packet(p, payload, Nil, id)
Response(p, payload, id) ==
    IF payload.t = "Error"
    THEN packet(p, Nil, ErrorPtr(payload.name, payload.message, payload.code), id)
    ELSE packet(p, payload, Nil, id)

\* h.Conn.Publish(m.Reply, data): the reply subject of a Request takes the
\* first reply while its call waits; any other message on it is dropped.
Publish_AnyInbox(to, m) ==
    \E t \in CallIds :
        /\ calls[t].status = "waiting" /\ inbox[t] = <<>>
        /\ inbox' = [inbox EXCEPT ![t] = <<m>>]
        /\ late' = late
Publish(to, m) ==
    IF calls[to].status = "waiting" /\ inbox[to] = <<>>
    THEN /\ inbox' = [inbox EXCEPT ![to] = <<m>>]
         /\ late' = late
    ELSE /\ late' = late \cup {m.call}
         /\ inbox' = inbox

\* The user handler calls the reply callback with payload.
ReplyFn(c, payload) ==
    LET s == msgs[c].sub
        pr == adds[s].proc
        resp == Response(adds[s].pattern, payload, ReplyId(c))
        data == Marshal(resp)
    IN  /\ msgs[c].state = "handling"
        /\ LiveSub(s)
        /\ Replies < MaxReplies
        /\ nuid' = [nuid EXCEPT ![pr] = nuid[pr] + 1]
        /\ msgs' = [msgs EXCEPT ![c].replies = msgs[c].replies + 1]
        /\ envelopes' = envelopes \cup
              {[kind |-> "reply", id |-> resp.Request.ID, call |-> c,
                n |-> msgs[c].replies + 1]}
        /\ response' = [call |-> c, payload |-> payload, pack |-> resp, data |-> data]
        /\ Publish(msgs[c].reply, [data |-> data, payload |-> payload, call |-> c])
        /\ UNCHANGED <<alive, adds, calls, hemera, options>>

\* ---------------------------------------------------------------- Act
\* Act(p, handler), run in process pr, up to the point where Request waits.
ActRequest(c, pr, p) ==
    LET request == packet(p, Nil, Nil, Next_nuid(pr))
        data == Marshal(request)
        started == [IdleCall EXCEPT !.proc = pr, !.pattern = p]
    IN  /\ alive[pr]
        /\ calls[c].status = "idle"
        /\ \A d \in CallIds : d < c => calls[d].status # "idle"
        /\ IF ~TopicOk(p)
           THEN /\ alive' = [alive EXCEPT ![pr] = FALSE]
                /\ calls' = Killed([calls EXCEPT ![c] =
                                [started EXCEPT !.status = "fatal",
                                                !.cause = ErrActTopicRequired]], pr)
                /\ UNCHANGED <<nuid, msgs, envelopes>>
           ELSE /\ nuid' = [nuid EXCEPT ![pr] = nuid[pr] + 1]
                /\ calls' = [calls EXCEPT ![c] =
                                [started EXCEPT !.status = "waiting",
                                                !.id = request.Request.ID,
                                                !.wait = RequestWait(hemera)]]
                /\ envelopes' = envelopes \cup
                      {[kind |-> "request", id |-> request.Request.ID, call |-> c,
                        n |-> 0]}
                /\ \E R \in RecipientSets(Topic(p)) :
                      IF R = {}
                      THEN msgs' = msgs
                      ELSE \E s \in R :
                              msgs' = [msgs EXCEPT ![c] =
                                          [NoMsg EXCEPT !.state = "inflight",
                                                        !.sub = s, !.to = R,
                                                        !.data = data,
                                                        !.reply = c]]
                /\ alive' = alive
        /\ UNCHANGED <<adds, inbox, response, late, hemera, options>>

\* The value Act passes to the caller's handler for a decoded reply.
HandlerArg_ResultOnly(pack) == pack.Result
HandlerArg(pack) == IF pack.Error # Nil THEN pack.Error ELSE pack.Result

\* Request returned the first reply m: decode it and invoke the handler.
ActReceive_KeepsWaiting(c) ==
    LET m == Head(inbox[c])
    IN  /\ calls[c].status = "waiting"
        /\ inbox[c] # <<>>
        /\ ~UnmarshalFails(m.data)
        /\ calls' = [calls EXCEPT ![c].handled = Append(@, HandlerArg(Unmarshal(m.data))),
                                  ![c].consumed = Append(@, m),
                                  ![c].ret = Ret(TRUE, NoError)]
        /\ inbox' = [inbox EXCEPT ![c] = <<>>]
        /\ UNCHANGED <<alive, nuid, adds, msgs, envelopes, response, late, hemera, options>>
ActReceive(c) ==
    LET m == Head(inbox[c])
        pack == Unmarshal(m.data)
        pr == calls[c].proc
    IN  /\ calls[c].status = "waiting"
        /\ inbox[c] # <<>>
        /\ IF UnmarshalFails(m.data)
           THEN /\ alive' = [alive EXCEPT ![pr] = FALSE]
                /\ calls' = Killed([calls EXCEPT ![c].status = "fatal",
                                                 ![c].consumed = Append(@, m),
                                                 ![c].cause = ErrUnmarshal], pr)
           ELSE /\ calls' = [calls EXCEPT ![c].status = "returned",
                                          ![c].handled = Append(@, HandlerArg(pack)),
                                          ![c].consumed = Append(@, m),
                                          ![c].ret = Ret(TRUE, NoError)]
                /\ alive' = alive
        /\ inbox' = [inbox EXCEPT ![c] = <<>>]
        /\ UNCHANGED <<nuid, adds, msgs, envelopes, response, late, hemera, options>>

\* Request returned err (the timeout elapsed, or the transport failed).
ActError_FallsThrough(c, err) ==
    /\ calls[c].status = "waiting"
    /\ calls[c].cause = NoError
    /\ calls' = [calls EXCEPT ![c].cause = err]
    /\ UNCHANGED <<alive, nuid, adds, msgs, inbox, envelopes, response, late, hemera, options>>
ActError(c, err) ==
    LET pr == calls[c].proc
    IN  /\ calls[c].status = "waiting"
        /\ alive' = [alive EXCEPT ![pr] = FALSE]
        /\ calls' = Killed([calls EXCEPT ![c].status = "fatal", ![c].cause = err], pr)
        /\ inbox' = [inbox EXCEPT ![c] = <<>>]
        /\ UNCHANGED <<nuid, adds, msgs, envelopes, response, late, hemera, options>>

\* ------------------------------------------------------------ the payloads
Payloads ==
    {Nil, GoInt(5), Error("DivByZero", "b=0", 400),
     ErrorPtr("DivByZero", "b=0", 400), GoChan}

Next ==
    \/ \E pr \in Procs, p \in AddPatterns, subOk \in BOOLEAN : Add(pr, p, subOk)
    \/ \E c \in CallIds : SubscriptionCallback(c)
    \/ \E c \in CallIds, payload \in Payloads : ReplyFn(c, payload)
    \/ \E c \in CallIds, pr \in Clients, p \in ActPatterns : ActRequest(c, pr, p)
    \/ \E c \in CallIds : ActReceive(c)
    \/ \E c \in CallIds, err \in {ErrTimeout, ErrConnectionClosed} : ActError(c, err)

Spec == Init /\ [][Next]_vars

\* Act calls on a Hemera built with any of the option lists, with no
\* Responder around.
InitOptions ==
    /\ alive = [pr \in Procs |-> TRUE]
    /\ nuid = [pr \in Procs |-> 0]
    /\ adds = <<>>
    /\ calls = [c \in CallIds |-> IdleCall]
    /\ msgs = [c \in CallIds |-> NoMsg]
    /\ inbox = [c \in CallIds |-> <<>>]
    /\ envelopes = {}
    /\ response = NoResponse
    /\ late = {}
    /\ options \in OptionLists
    /\ hemera = NewHemera(options)

NextOptions ==
    \/ \E c \in CallIds, pr \in Clients, p \in ActPatterns : ActRequest(c, pr, p)
    \/ \E c \in CallIds, err \in {ErrTimeout, ErrConnectionClosed} : ActError(c, err)

SpecOptions == InitOptions /\ [][NextOptions]_vars

\* ------------------------------------------------------------ properties
\* Two Go values are equal as JSON documents.
ValueEq(a, b) ==
    /\ Serializable(a)
    /\ Serializable(b)
    /\ MarshalValue(a) = MarshalValue(b)

\* C1: Add with a pattern that has no string topic returns (false,
\* ErrAddTopicRequired) to its caller and creates no subscription.
C1_AddTopicRequired ==
    \A i \in 1..Len(adds) :
        ~TopicOk(adds[i].pattern) =>
            /\ adds[i].ret = Ret(FALSE, ErrAddTopicRequired)
            /\ ~adds[i].subscribed

\* C2: Act with a pattern that has no string topic returns (false,
\* ErrActTopicRequired) to its caller, sends no request and does not invoke
\* the handler.
C2_ActTopicRequired ==
    \A c \in CallIds :
        (calls[c].status # "idle" /\ ~TopicOk(calls[c].pattern)) =>
            /\ calls[c].ret = Ret(FALSE, ErrActTopicRequired)
            /\ calls[c].handled = <<>>
            /\ ~\E e \in envelopes : e.kind = "request" /\ e.call = c

\* C3: an Act call whose Request times out returns (false, timeout error)
\* and its handler is never invoked.
C3_TimeoutReturned ==
    \A c \in CallIds :
        calls[c].cause = ErrTimeout =>
            /\ calls[c].ret = Ret(FALSE, ErrTimeout)
            /\ calls[c].handled = <<>>

\* C4: a transport or timeout failure of one Act call leaves every other
\* call as it was and every live subscription live.
C4_FailureIsolation ==
    [][\A c \in CallIds :
          (/\ calls[c].status = "waiting"
           /\ calls'[c].status = "fatal"
           /\ calls'[c].cause \in {ErrTimeout, ErrConnectionClosed})
          => /\ \A d \in CallIds \ {c} : calls'[d].status = calls[d].status
             /\ \A i \in 1..Len(adds) : LiveSub(i) => alive'[adds[i].proc]]_vars

\* C5: the handler of an Act call is invoked at most once, and exactly once
\* when Act returned ok=true, however many replies the Responder published.
C5_HandlerOnce ==
    \A c \in CallIds :
        /\ Len(calls[c].handled) <= 1
        /\ (calls[c].ret.returned /\ calls[c].ret.ok) => Len(calls[c].handled) = 1

C5_Witness ==
    \E c \in CallIds :
        /\ calls[c].ret.returned /\ calls[c].ret.ok
        /\ Len(calls[c].handled) = 1
        /\ msgs[c].replies = 2

\* C6 as stated: for any payload r, the handler of the Act call that took the
\* reply built from r is invoked with a value equal to r.
C6_AnyPayload ==
    \A c \in CallIds :
        calls[c].consumed # <<>> =>
            /\ calls[c].handled # <<>>
            /\ ValueEq(calls[c].handled[1], calls[c].consumed[1].payload)

\* C6 amended: for any payload r and Responder pattern p that json.Marshal
\* can encode, the handler of the Act call that took the reply built from r
\* is invoked with a value equal to r as a JSON document.
C6_RoundTrip ==
    \A c \in CallIds :
        (/\ calls[c].consumed # <<>>
         /\ Serializable(calls[c].consumed[1].payload)
         /\ PatternSerializable(adds[msgs[c].sub].pattern))
        => /\ calls[c].handled # <<>>
           /\ ValueEq(calls[c].handled[1], calls[c].consumed[1].payload)

C6_Witness ==
    \E c \in CallIds :
        /\ calls[c].ret.returned
        /\ calls[c].consumed[1].payload = GoInt(5)
        /\ calls[c].handled = <<GoFloat(5)>>

C8_Exclusive ==
    /\ ~(response.pack.Result # Nil /\ response.pack.Error # Nil)
    /\ ~(response.data.result # JNull /\ response.data.error # JNull)
    /\ \A c \in CallIds : \A k \in 1..Len(inbox[c]) :
          ~(inbox[c][k].data.result # JNull /\ inbox[c][k].data.error # JNull)

C8_Witness ==
    /\ response.call # 0
    /\ response.payload.t = "Error"
    /\ response.pack.Error # Nil
    /\ ~response.data.empty

\* C9: every packet built by Act or by a reply callback carries an id no
\* other packet carries; calls in flight together have different ids, and a
\* reply's id differs from the id of the request it answers.
C9_FreshIds ==
    /\ \A e1, e2 \in envelopes : e1 # e2 => e1.id # e2.id
    /\ \A c, d \in CallIds :
          (c # d /\ calls[c].status = "waiting" /\ calls[d].status = "waiting")
              => calls[c].id # calls[d].id
    /\ \A e \in envelopes : e.kind = "reply" => e.id # calls[e.call].id

C9_Witness ==
    /\ \E c, d \in CallIds :
          c # d /\ calls[c].status = "waiting" /\ calls[d].status = "waiting"
    /\ \E e \in envelopes : e.kind = "reply" /\ adds[msgs[e.call].sub].proc = calls[e.call].proc

\* C10: the handler of an Act call whose timeout fired is never invoked, and
\* a call only ever takes a reply made for its own request.
C10_LateReplyDiscarded ==
    /\ \A c \in CallIds : calls[c].cause = ErrTimeout => calls[c].handled = <<>>
    /\ \A c \in CallIds : \A k \in 1..Len(calls[c].consumed) :
          calls[c].consumed[k].call = c

C10_Witness ==
    \E c \in CallIds :
        /\ calls[c].cause = ErrTimeout
        /\ msgs[c].replies = 1
        /\ c \in late

\* C11: Act calls of one process are in flight together, and the handler of
\* each receives the decoded reply made for its own request, never a reply
\* made for another call.
C11_IndependentCalls ==
    \A c \in CallIds :
        /\ \A k \in 1..Len(inbox[c]) : inbox[c][k].call = c
        /\ calls[c].status = "returned" =>
              /\ calls[c].consumed[1].call = c
              /\ calls[c].handled = <<HandlerArg(Unmarshal(calls[c].consumed[1].data))>>

C11_Witness ==
    \E c, d \in CallIds :
        /\ d < c
        /\ calls[c].proc = calls[d].proc
        /\ calls[c].status = "returned"
        /\ calls[c].handled = <<GoFloat(5)>>
        /\ calls[d].status = "waiting"
        /\ inbox[d] # <<>>
        /\ inbox[d][1].payload = Error("DivByZero", "b=0", 400)

\* C12: when the reply bytes cannot be decoded, Act returns ok=false with a
\* non-nil error, does not invoke the handler and the process goes on.
C12_DecodeFailureReturned ==
    \A c \in CallIds :
        calls[c].cause = ErrUnmarshal =>
            /\ calls[c].ret.returned
            /\ ~calls[c].ret.ok
            /\ calls[c].ret.err # NoError
            /\ calls[c].handled = <<>>
            /\ alive[calls[c].proc]

\* C13: a Responder that cannot decode the inbound bytes does not invoke the
\* user handler (it answers with an error reply instead).
C13_NoHandlerOnBadInput ==
    \A c \in CallIds :
        msgs[c].state = "handling" => ~UnmarshalFails(msgs[c].data)

\* C14: the wait Act hands to Request is the configured timeout: 2000 ms
\* when NewHemera got no option, the duration d when it got Timeout(d) (d
\* a whole number of milliseconds, the last Timeout given).
C14_WaitIsConfigured ==
    \A c \in CallIds :
        (calls[c].status # "idle" /\ TopicOk(calls[c].pattern)) =>
            IF options = <<>>
            THEN calls[c].wait = 2000
            ELSE LET d == options[Len(options)]
                 IN  d % Millisecond = 0 => calls[c].wait = d \div Millisecond

\* C15: every Responder subscribes on its topic under the queue group named
\* after the topic, and a request on a topic with live Responders is
\* delivered to exactly one of them, whose handler is the one invoked.
C15_OneResponderPerRequest ==
    /\ \A i \in 1..Len(adds) :
          ~adds[i].fatal =>
              /\ adds[i].sub.subject = Topic(adds[i].pattern)
              /\ adds[i].sub.queue = Topic(adds[i].pattern)
    /\ \A c \in CallIds :
          msgs[c].state # "none" =>
              /\ Cardinality(msgs[c].to) = 1
              /\ msgs[c].sub \in msgs[c].to
              /\ adds[msgs[c].sub].sub.subject = Topic(calls[c].pattern)

C15_Witness ==
    \E c \in CallIds :
        /\ msgs[c].state = "handling"
        /\ Cardinality(msgs[c].to) = 1
        /\ Len(adds) = 2
        /\ \A i \in 1..2 : LiveSub(i) /\ adds[i].sub.subject = Topic(calls[c].pattern)
        /\ adds[1].proc # adds[2].proc

\* Two patterns are equal as JSON documents.
PatternEq(p, q) ==
    /\ PatternSerializable(p)
    /\ PatternSerializable(q)
    /\ MarshalPattern(p) = MarshalPattern(q)

\* C16: an Act call with a valid topic that has stopped waiting has returned
\* to its caller, with a reply or with the error of Request.
C16_ActReturns ==
    \A c \in CallIds :
        (TopicOk(calls[c].pattern) /\ calls[c].status \notin {"idle", "waiting"}) =>
            calls[c].ret.returned

\* C17 as stated: in the packet a reply callback builds, exactly one of Result
\* and Error is set, whatever the payload (a nil payload included).
C17_ExactlyOne ==
    response.call # 0 =>
        (response.pack.Result # Nil) # (response.pack.Error # Nil)

\* C17 amended: exactly one of result and error is set, in the packet and on
\* the wire, for every payload whose JSON encoding is not null; for a payload
\* that encodes as null (nil) neither is set.
C17_ExactlyOneUnlessNil ==
    response.call # 0 =>
        IF Serializable(response.payload) /\ MarshalValue(response.payload) = JNull
        THEN /\ response.pack.Result = Nil /\ response.pack.Error = Nil
             /\ ~response.data.empty =>
                   response.data.result = JNull /\ response.data.error = JNull
        ELSE /\ (response.pack.Result # Nil) # (response.pack.Error # Nil)
             /\ ~response.data.empty =>
                   (response.data.result # JNull) # (response.data.error # JNull)

C17_Witness ==
    /\ response.call # 0
    /\ response.payload = Nil
    /\ response.pack.Result = Nil
    /\ response.pack.Error = Nil
    /\ ~response.data.empty

\* C18: the user handler of the Responder is invoked with the pattern decoded
\* from the inbound packet; for a request that was encoded, it is the pattern
\* the requester passed to Act, every key of it.
C18_HandlerGetsPattern ==
    \A c \in CallIds :
        msgs[c].state = "handling" =>
            /\ msgs[c].pattern = Unmarshal(msgs[c].data).Pattern
            /\ ~UnmarshalFails(msgs[c].data) =>
                  PatternEq(msgs[c].pattern, calls[c].pattern)

C18_Witness ==
    \E c \in CallIds :
        /\ msgs[c].state = "handling"
        /\ calls[c].pattern = PatMath
        /\ msgs[c].pattern = Pattern(GoString("math"), GoFloat(2))

\* C19: the packet a reply callback builds carries the pattern of the inbound
\* request it answers (for a request that was decoded, in a Responder whose
\* own pattern can be encoded).
C19_ReplyEchoesPattern ==
    (/\ response.call # 0
     /\ ~UnmarshalFails(msgs[response.call].data)
     /\ PatternSerializable(adds[msgs[response.call].sub].pattern))
    => PatternEq(response.pack.Pattern, msgs[response.call].pattern)

\* C20: an Add that returned (true, nil) has registered its subscription on
\* the transport.
C20_AddSuccessMeansSubscribed ==
    \A i \in 1..Len(adds) :
        adds[i].ret = Ret(TRUE, NoError) => adds[i].subscribed

====
